---------------------------- MODULE Spec2Model ----------------------------
(***************************************************************************)
(* rr-image-downloader: the paginated gather of image records, the         *)
(* conversion of records into (url, filepath) tasks, the confirmation      *)
(* prompt and the semaphore-bounded pool of concurrent transfers, for the  *)
(* two programs of the repository:                                         *)
(*   v1  src/download.py   (module-level functions, one run per process)   *)
(*   v2  src/v2/main.py    (class ImageDownloader, any number of instances *)
(*                          and archive() calls per process)               *)
(* The listing endpoint, the media endpoint, the local filesystem and the  *)
(* user at the prompt are the environment: their answers are chosen        *)
(* nondeterministically from small sets.                                   *)
(***************************************************************************)
EXTENDS Integers, Sequences, FiniteSets, TLC

(***************************************************************************)
(* Bounds of the model.  PAGE_MAX_COUNT and CONCURRENCY stand for the      *)
(* program's 1000 (download.py:70, v2/main.py:189) and 50 / 30             *)
(* (download.py:24, v2/main.py:46), scaled down so that full pages, a      *)
(* partial page and a saturated pool all occur within a finite model.      *)
(***************************************************************************)
PAGE_MAX_COUNT == 2

CONCURRENCY == 2

\* most records the listing endpoint of download.py holds
MaxRecords == 5

\* most records the listing endpoint of v2 holds, over both categories
MaxBatch == 4

\* v2's class-level list grows with every archive() call: a call after the
\* first is made only while the list it would build stays within this many
\* entries
MaxRerun == 2

\* ImageDownloader instances created in one process
MaxInstances == 2

\* archive() calls in one process
MaxRuns == 2

\* the account ids the two entry points pass
ACCOUNT_ID_V1 == 205981

ACCOUNT_ID_V2 == 1203872

\* TIMEOUT = aiohttp.ClientTimeout(total=30): the configured total, in seconds
TIMEOUT == 30

\* aiohttp.ClientSession(...) called without a timeout= argument keeps the
\* library's default, ClientTimeout(total=5*60)
DEFAULT_TIMEOUT == 300

None == "None"

Categories == {"tagged", "photos"}

Instances == 1..MaxInstances

\* what the user may type at the prompt
Answers == {"y", "Y", "n", "x"}

\* how the listing endpoint may answer one page request:
\*   ok             status 200 and the honest slice of the listing
\*   transport      the request raises (connection error, timeout)
\*   malformed      the body does not parse as JSON (v2: or has no <pre>)
\*   status_object  error status, body a JSON object such as {"statusCode":..}
\*   status_empty   error status, body an empty JSON array
PageOutcomes == {"ok", "transport", "malformed", "status_object", "status_empty"}

\* the kind of failure each non-ok outcome is
FailureKind(outcome) ==
    CASE outcome = "transport" -> "transport"
      [] outcome = "malformed" -> "malformed"
      [] outcome = "status_object" -> "status"
      [] outcome = "status_empty" -> "status"
      [] OTHER -> "none"

VARIABLES
    prog,               \* "v1" (download.py) or "v2" (v2/main.py)
    listing,            \* environment: records the endpoint holds, per category
    pc,                 \* where the run is: idle, gather, prompt, pool, returned, raised
    runs,               \* archive()/main() calls started so far
    \* ---- download.py
    session,            \* main's aiohttp session: None, "open", "closed"
    timeout,            \* the total timeout in force on main's session, 0 before
    image_urls,         \* gather_image_urls' list, then main's
    skip,               \* gather_image_urls.skip
    total_image_count,  \* gather_image_urls.total_image_count
    sem,                \* download_all's semaphore value
    \* ---- v2/main.py
    inst,               \* the ImageDownloader instances (instance attributes)
    images_to_download, \* ImageDownloader.images_to_download, the class-level list
    cur,                \* the instance whose archive() is running
    ask,                \* archive's ask_for_confirmation
    is_tagged,          \* _download_image_data.is_tagged
    page,               \* _download_image_data.page
    snapshots,          \* raw page files written by _save_image_data
    \* ---- both
    answer,             \* the prompt's last input
    tasks,              \* the coroutines handed to gather, in order
    tpc,                \* each coroutine's position: wait, get, open, write, done
    results,            \* each coroutine's return value (None until it returns)
    opened,             \* whether each coroutine has opened its destination
    summary,            \* the printed <<downloaded, total>>, <<>> before
    \* ---- history of the current run, kept for the properties
    requests,           \* <<category, skip>> of every page request, in order
    failure,            \* kind of the first failed page fetch, "none" if none
    save_failed,        \* whether _save_image_data has raised
    fate,               \* what happened to each transfer: pending, ok, status
                        \* (failed status check), error (any other failure)
    produced            \* how many results each coroutine has produced

varsV1 == <<session, timeout, image_urls, skip, total_image_count, sem>>

varsV2 == <<inst, images_to_download, cur, ask, is_tagged, page, snapshots>>

varsPool == <<tasks, tpc, results, opened, fate, produced>>

varsHist == <<requests, failure, save_failed>>

vars == <<prog, listing, pc, runs, varsV1, varsV2, answer, varsPool, summary, varsHist>>

(***************************************************************************)
(* Strings are sequences of one-character strings (a number prints as one *)
(* token), so that split, "in" and concatenation are computed.            *)
(***************************************************************************)

\* str(n)
Str(n) == <<ToString(n)>>

\* c in s
Contains(s, c) == \E i \in 1..Len(s) : s[i] = c

\* s.split(c)[0]: what precedes the first c, all of s when there is none
SplitFirst(s, c) ==
    IF Contains(s, c)
    THEN SubSeq(s, 1, (CHOOSE i \in 1..Len(s) :
                          s[i] = c /\ \A j \in 1..(i - 1) : s[j] # c) - 1)
    ELSE s

\* str.lower() on the prompt's inputs
Lower(a) ==
    CASE a = "Y" -> "y"
      [] a = "N" -> "n"
      [] OTHER -> a

(***************************************************************************)
(* The environment: records and the listing endpoint                       *)
(***************************************************************************)

\* ImageName of the k-th record: every third name carries an extension
ImageNameOf(k) ==
    IF k % 3 = 2 THEN <<"n", ToString(k), ".", "j", "p", "g">>
    ELSE <<"n", ToString(k)>>

\* CreatedAt of the k-th record: ISO-8601 with a 'T', except every fourth
CreatedAtOf(k) ==
    IF k % 4 = 3 THEN <<"d", ToString(k), " ", "h", ".", "f">>
    ELSE <<"d", ToString(k), "T", "h", ".", "f", "Z">>

\* the k-th record of a category's listing
ImageRecord(cat, k) ==
    [Id |-> k,
     ImageName |-> ImageNameOf(k),
     CreatedAt |-> CreatedAtOf(k),
     PlayerId |-> IF cat = "tagged" THEN k + 100 ELSE 100,
     RoomId |-> IF k % 2 = 0 THEN 0 ELSE k + 200]

Min(a, b) == IF a < b THEN a ELSE b

\* the honest answer to ?take=<take>&skip=<skip>: records skip+1 .. skip+take
ServerPage(cat, take, skp) ==
    [i \in 1..(IF skp >= listing[cat] THEN 0 ELSE Min(take, listing[cat] - skp))
        |-> ImageRecord(cat, skp + i)]

(***************************************************************************)
(* Task building                                                           *)
(***************************************************************************)

\* download.py: add_png_extension_if_missing
add_png_extension_if_missing(filename) ==
    IF ~Contains(filename, ".") THEN filename \o <<".", "p", "n", "g">>
    ELSE filename

\* download.py: create_image_tuple, the pair (image url, filepath)
create_image_tuple(image_object) ==
    LET image_name == image_object.ImageName
        creation_date == SplitFirst(image_object.CreatedAt, "T")
        filename == add_png_extension_if_missing(
                        creation_date \o <<" ", "[">> \o Str(image_object.Id)
                        \o <<"]", " ">> \o image_name)
    IN  [url |-> <<"https://img.rec.net/">> \o image_name,
         filepath |-> <<"images", "/">> \o filename]

\* v2: _add_png_extension_if_missing
_add_png_extension_if_missing(filename) ==
    IF ~Contains(filename, ".") THEN filename \o <<".", "p", "n", "g">>
    ELSE filename

\* v2: _shorten_creation_timestamp
_shorten_creation_timestamp(creation_timestamp) ==
    IF Contains(creation_timestamp, "T")
    THEN SplitFirst(creation_timestamp, "T")
    ELSE creation_timestamp

\* a naming that numbers the files: the length of the list so far goes into
\* the filename
_format_filename_numbered(image_data) ==
    LET creation_date == _shorten_creation_timestamp(image_data.CreatedAt)
    IN  _add_png_extension_if_missing(
            Str(Len(images_to_download)) \o <<" ">>
            \o creation_date \o <<" ", "[">> \o Str(image_data.Id)
            \o <<"]", " ", "[", "player: ">> \o Str(image_data.PlayerId)
            \o <<"]", " ", "[", "room: ">> \o Str(image_data.RoomId)
            \o <<"]", " ">> \o image_data.ImageName)

\* v2: _format_filename
_format_filename(image_data) ==
    LET creation_date == _shorten_creation_timestamp(image_data.CreatedAt)
    IN  _add_png_extension_if_missing(
            creation_date \o <<" ", "[">> \o Str(image_data.Id)
            \o <<"]", " ", "[", "player: ">> \o Str(image_data.PlayerId)
            \o <<"]", " ", "[", "room: ">> \o Str(image_data.RoomId)
            \o <<"]", " ">> \o image_data.ImageName)

\* v2: the Image(url, filepath) that _convert_images_json_to_tuples builds
\* for one record
ImageOf(account_id, image_data, tagged) ==
    [url |-> <<"https://img.rec.net/">> \o image_data.ImageName,
     filepath |-> Str(account_id)
                  \o <<"/", IF tagged THEN "tagged" ELSE "photos", "/">>
                  \o _format_filename(image_data)]

\* v2: _convert_images_json_to_tuples, its ImagesWithCount
_convert_images_json_to_tuples(account_id, images_json, tagged) ==
    [count |-> Len(images_json),
     images |-> [i \in 1..Len(images_json)
                    |-> ImageOf(account_id, images_json[i], tagged)]]

(***************************************************************************)
(* Initial state: the process has started, nothing has run                 *)
(***************************************************************************)

NoInstance ==
    [created |-> FALSE, account_id |-> None, session |-> None,
     html_session |-> None, timeout |-> 0, semaphore |-> 0,
     photos_count |-> 0, tagged_count |-> 0, total_count |-> 0]

Init ==
    /\ prog \in {"v1", "v2"}
    /\ listing \in [Categories -> 0..MaxRecords]
    /\ prog = "v1" => listing["tagged"] = 0
    /\ prog = "v2" => listing["tagged"] + listing["photos"] <= MaxBatch
    /\ pc = "idle"
    /\ runs = 0
    /\ session = None
    /\ timeout = 0
    /\ image_urls = <<>>
    /\ skip = 0
    /\ total_image_count = 0
    /\ sem = 0
    /\ inst = [i \in Instances |-> NoInstance]
    /\ images_to_download = <<>>
    /\ cur = 1
    /\ ask = TRUE
    /\ is_tagged = TRUE
    /\ page = 0
    /\ snapshots = {}
    /\ answer = ""
    /\ tasks = <<>>
    /\ tpc = <<>>
    /\ results = <<>>
    /\ opened = <<>>
    /\ summary = <<>>
    /\ requests = <<>>
    /\ failure = "none"
    /\ save_failed = FALSE
    /\ fate = <<>>
    /\ produced = <<>>

(***************************************************************************)
(* The worker pool: gather over one coroutine per task, admission through  *)
(* the semaphore.  Between two awaits a coroutine runs atomically, so the  *)
(* steps of a transfer are its awaits: the semaphore, the response, the    *)
(* opening of the destination, the streamed write.                         *)
(***************************************************************************)

\* a semaphore created one slot too wide
SemaphoreInitOffByOne == CONCURRENCY + 1

\* asyncio.Semaphore(CONCURRENCY): the initial number of free slots
SemaphoreInit == CONCURRENCY

\* asyncio.Semaphore.locked(): "async with sem" waits while this holds
Locked(value) == value = 0

\* "return False" of the except clause
ExceptionResult == "False"

\* sum(results): True counts 1, False counts 0
Sum(res) == Cardinality({t \in DOMAIN res : res[t] = "True"})

\* a wait that resumes on the first coroutine to return
GatherFirstCompleted(positions) ==
    \E t \in DOMAIN positions : positions[t] = "done"

\* await gather(*tasks) resumes once every coroutine has returned
GatherDone(positions) == \A t \in DOMAIN positions : positions[t] = "done"

\* tasks = [download_image(...) for ... in list]: one coroutine per entry
Coroutines(list) == list

\* the transfers holding a slot: inside "async with sem"
InFlight == {t \in DOMAIN tpc : tpc[t] \in {"get", "open", "write"}}

\* the semaphore the running pool uses: download_all's local in download.py,
\* the instance's in v2
SemValue == IF prog = "v1" THEN sem ELSE inst[cur].semaphore

\* the total timeout in force on the session the running pool uses
TimeoutOfRun == IF prog = "v1" THEN timeout ELSE inst[cur].timeout

SemAssign(value) ==
    IF prog = "v1"
    THEN sem' = value /\ inst' = inst
    ELSE inst' = [inst EXCEPT ![cur].semaphore = value] /\ sem' = sem

\* gather(*tasks) is entered: every coroutine is scheduled, none has run
StartPool(list) ==
    /\ tasks' = Coroutines(list)
    /\ tpc' = [t \in 1..Len(Coroutines(list)) |-> "wait"]
    /\ results' = [t \in 1..Len(Coroutines(list)) |-> None]
    /\ fate' = [t \in 1..Len(Coroutines(list)) |-> "pending"]
    /\ produced' = [t \in 1..Len(Coroutines(list)) |-> 0]
    /\ opened' = [t \in 1..Len(Coroutines(list)) |-> FALSE]

\* what no step of a transfer touches
UnchangedByTransfer ==
    UNCHANGED <<prog, listing, pc, runs, session, timeout, image_urls, skip,
                total_image_count, images_to_download, cur, ask, is_tagged,
                page, snapshots, answer, tasks, summary, requests, failure,
                save_failed>>

\* a return that gives its slot back only when the transfer succeeded
ReturnKeepingSlotOnFailure(t, value, what) ==
    /\ tpc' = [tpc EXCEPT ![t] = "done"]
    /\ results' = [results EXCEPT ![t] = value]
    /\ fate' = [fate EXCEPT ![t] = what]
    /\ produced' = [produced EXCEPT ![t] = @ + 1]
    /\ SemAssign(IF value = "True" THEN SemValue + 1 ELSE SemValue)

\* the coroutine returns value: leaves "async with sem", releasing its slot
Return(t, value, what) ==
    /\ tpc' = [tpc EXCEPT ![t] = "done"]
    /\ results' = [results EXCEPT ![t] = value]
    /\ fate' = [fate EXCEPT ![t] = what]
    /\ produced' = [produced EXCEPT ![t] = @ + 1]
    /\ SemAssign(SemValue + 1)

\* async with sem: the coroutine takes a slot and issues session.get(url)
Acquire(t) ==
    /\ pc = "pool"
    /\ t \in DOMAIN tpc
    /\ tpc[t] = "wait"
    /\ ~Locked(SemValue)
    /\ SemAssign(SemValue - 1)
    /\ tpc' = [tpc EXCEPT ![t] = "get"]
    /\ UNCHANGED <<results, opened, fate, produced>>
    /\ UnchangedByTransfer

\* a response handler that opens the destination before it checks the status
ResponseOpensFirst(t, outcome) ==
    /\ pc = "pool"
    /\ t \in DOMAIN tpc
    /\ tpc[t] = "get"
    /\ \/ /\ outcome = "network"
          /\ Return(t, ExceptionResult, "error")
          /\ opened' = opened
       \/ /\ outcome = "status"
          /\ Return(t, ExceptionResult, "status")
          /\ opened' = [opened EXCEPT ![t] = TRUE]
       \/ /\ outcome = "ok"
          /\ tpc' = [tpc EXCEPT ![t] = "open"]
          /\ UNCHANGED <<results, opened, fate, produced, sem, inst>>
    /\ UnchangedByTransfer

\* session.get answers: a network error, an expired timeout or a failed
\* raise_for_status goes to the except clause; otherwise aiofiles.open is
\* awaited
Response(t, outcome) ==
    /\ pc = "pool"
    /\ t \in DOMAIN tpc
    /\ tpc[t] = "get"
    /\ \/ /\ outcome = "network"
          \* session.get raises: a connection error, or the total timeout in
          \* force on the session expires while the server stalls
          /\ Return(t, ExceptionResult, "error")
          /\ opened' = opened
       \/ /\ outcome = "status"
          \* resp.raise_for_status() raises
          /\ Return(t, ExceptionResult, "status")
          /\ opened' = opened
       \/ /\ outcome = "ok"
          /\ tpc' = [tpc EXCEPT ![t] = "open"]
          /\ UNCHANGED <<results, opened, fate, produced, sem, inst>>
    /\ UnchangedByTransfer

\* aiofiles.open(filepath, "wb") answers: the file is created or truncated,
\* or the open fails
Opened(t, ok) ==
    /\ pc = "pool"
    /\ t \in DOMAIN tpc
    /\ tpc[t] = "open"
    /\ \/ /\ ok
          /\ opened' = [opened EXCEPT ![t] = TRUE]
          /\ tpc' = [tpc EXCEPT ![t] = "write"]
          /\ UNCHANGED <<results, fate, produced, sem, inst>>
       \/ /\ ~ok
          /\ Return(t, ExceptionResult, "error")
          /\ opened' = opened
    /\ UnchangedByTransfer

\* the chunks are read and written: all of them, or an error mid-stream (a
\* broken connection, the expired timeout, a failed write)
Written(t, ok) ==
    /\ pc = "pool"
    /\ t \in DOMAIN tpc
    /\ tpc[t] = "write"
    /\ \/ /\ ok
          /\ Return(t, "True", "ok")
       \/ /\ ~ok
          /\ Return(t, ExceptionResult, "error")
    /\ opened' = opened
    /\ UnchangedByTransfer

\* every step of one download coroutine
TransferStep(t) ==
    \/ Acquire(t)
    \/ \E outcome \in {"ok", "network", "status"} : Response(t, outcome)
    \/ \E ok \in BOOLEAN : Opened(t, ok)
    \/ \E ok \in BOOLEAN : Written(t, ok)

(***************************************************************************)
(* download.py                                                             *)
(***************************************************************************)

\* the request of gather_image_urls: ?take=1000&skip={skip}
ImagesUrl(id, skp) ==
    [category |-> "photos", id |-> id, take |-> PAGE_MAX_COUNT, skip |-> skp]

\* a check that returns on "n" only
DeclinedOnlyOnNo(prompt) == Lower(prompt) = "n"

\* main's "if prompt.lower() != 'y': return"
Declined(prompt) == Lower(prompt) # "y"

\* main: the session is created and gather_image_urls is entered
main ==
    /\ prog = "v1"
    /\ pc = "idle"
    /\ runs = 0
    /\ runs' = 1
    /\ session' = "open"
    \* aiohttp.ClientSession(headers=HEADERS): TIMEOUT is not passed
    /\ timeout' = DEFAULT_TIMEOUT
    /\ image_urls' = <<>>
    /\ total_image_count' = 0
    /\ skip' = 0
    /\ pc' = "gather"
    /\ UNCHANGED <<prog, listing, sem, varsV2, answer, varsPool, summary, varsHist>>

\* gather_image_urls: one turn of its loop, the request and the handling of
\* the answer
gather_image_urls(outcome) ==
    /\ prog = "v1"
    /\ pc = "gather"
    /\ requests' = Append(requests, ImagesUrl(ACCOUNT_ID_V1, skip))
    /\ failure' = IF failure = "none" THEN FailureKind(outcome) ELSE failure
    /\ \/ /\ outcome \in {"transport", "malformed", "status_object"}
          \* session.get or response.json() raises; iterating a JSON object
          \* yields its keys, and create_image_tuple raises on a key
          /\ pc' = "raised"
          /\ UNCHANGED <<image_urls, skip, total_image_count>>
       \/ /\ outcome \in {"ok", "status_empty"}
          /\ LET resp == IF outcome = "ok"
                         THEN ServerPage("photos", PAGE_MAX_COUNT, skip)
                         ELSE <<>>
                 image_count == Len(resp)
                 total == total_image_count + image_count
             IN  /\ total_image_count' = total
                 /\ skip' = skip + total
                 /\ image_urls' = image_urls
                        \o [i \in 1..Len(resp) |-> create_image_tuple(resp[i])]
                 /\ pc' = IF image_count # PAGE_MAX_COUNT THEN "prompt"
                          ELSE "gather"
    /\ UNCHANGED <<prog, listing, runs, session, timeout, sem, varsV2, answer,
                   varsPool, summary, save_failed>>

\* main: the prompt; on "y" download_all is entered up to its gather
main_prompt(input) ==
    /\ prog = "v1"
    /\ pc = "prompt"
    /\ answer' = input
    /\ IF Declined(input)
       THEN /\ pc' = "returned"
            /\ UNCHANGED <<sem, varsPool>>
       ELSE /\ sem' = SemaphoreInit
            /\ StartPool(image_urls)
            /\ pc' = "pool"
    /\ UNCHANGED <<prog, listing, runs, session, timeout, image_urls, skip,
                   total_image_count, varsV2, summary, varsHist>>

\* download_image: a step of the coroutine of task t
download_image(t) ==
    /\ prog = "v1"
    /\ TransferStep(t)

\* download_all after its gather: the summary; then main closes the session
download_all ==
    /\ prog = "v1"
    /\ pc = "pool"
    /\ GatherDone(tpc)
    /\ summary' = <<Sum(results), Len(image_urls)>>
    /\ session' = "closed"
    /\ pc' = "returned"
    /\ UNCHANGED <<prog, listing, runs, timeout, image_urls, skip,
                   total_image_count, sem, varsV2, answer, varsPool, varsHist>>

NextV1 ==
    \/ main
    \/ \E outcome \in PageOutcomes : gather_image_urls(outcome)
    \/ \E input \in Answers : main_prompt(input)
    \/ \E t \in DOMAIN tpc : download_image(t)
    \/ download_all

(***************************************************************************)
(* v2/main.py                                                              *)
(***************************************************************************)

\* no archive() is running: the caller may create an instance or call archive
Quiet == pc \in {"idle", "returned", "raised"}

\* _get_image_data_url: ?take=1000&skip={page*1000}
_get_image_data_url(account_id, tagged, pg) ==
    [category |-> IF tagged THEN "tagged" ELSE "photos",
     id |-> account_id,
     take |-> PAGE_MAX_COUNT,
     skip |-> pg * PAGE_MAX_COUNT]

\* _download_all up to its gather: the assertion, then one coroutine per
\* entry of the class-level list
_download_all_begin(total_count, list) ==
    IF total_count = 0
    THEN /\ pc' = "raised"
         /\ UNCHANGED varsPool
    ELSE /\ pc' = "pool"
         /\ StartPool(list)

\* ImageDownloader.create: a fresh instance; the counters and the list are
\* not set, so they read as the class attributes
create(i) ==
    /\ prog = "v2"
    /\ Quiet
    /\ ~inst[i].created
    \* instances are interchangeable until used: the i-th is created once
    \* i - 1 archive() calls have been made
    /\ \A j \in 1..(i - 1) : inst[j].created
    /\ i <= runs + 1
    /\ inst' = [inst EXCEPT ![i] =
                   [created |-> TRUE, account_id |-> ACCOUNT_ID_V2,
                    session |-> "open", html_session |-> "open",
                    \* aiohttp.ClientSession(): TIMEOUT is not passed
                    timeout |-> DEFAULT_TIMEOUT,
                    semaphore |-> SemaphoreInit,
                    photos_count |-> 0, tagged_count |-> 0, total_count |-> 0]]
    /\ UNCHANGED <<prog, listing, pc, runs, varsV1, images_to_download, cur, ask,
                   is_tagged, page, snapshots, answer, varsPool, summary,
                   varsHist>>

\* archive: entered; _gather_images calls _download_image_data(is_tagged=True)
archive(i, ask_for_confirmation) ==
    /\ prog = "v2"
    /\ Quiet
    /\ inst[i].created
    /\ runs < MaxRuns
    /\ \/ runs = 0
       \/ Len(images_to_download) + listing["tagged"] + listing["photos"]
             <= MaxRerun
    /\ runs' = runs + 1
    /\ cur' = i
    /\ ask' = ask_for_confirmation
    /\ is_tagged' = TRUE
    /\ page' = 0
    /\ pc' = "gather"
    /\ answer' = ""
    /\ summary' = <<>>
    /\ requests' = <<>>
    /\ failure' = "none"
    /\ save_failed' = FALSE
    /\ tasks' = <<>>
    /\ tpc' = <<>>
    /\ results' = <<>>
    /\ fate' = <<>>
    /\ produced' = <<>>
    /\ opened' = <<>>
    /\ UNCHANGED <<prog, listing, varsV1, inst, images_to_download, snapshots>>

\* _download_image_data: one turn of its loop (_fetch_image_data,
\* _save_image_data, _convert_images_json_to_tuples), and what follows the
\* loop's end: the photos category after the tagged one, then total_count,
\* then archive's prompt or _download_all
_download_image_data(outcome, saved) ==
    /\ prog = "v2"
    /\ pc = "gather"
    /\ UNCHANGED <<prog, listing, runs, varsV1, cur, ask, answer, summary>>
    /\ IF inst[cur].html_session # "open"
       THEN \* self.html_session is None after close(): AttributeError
            /\ pc' = "raised"
            /\ UNCHANGED <<inst, images_to_download, is_tagged, page, snapshots,
                           varsPool, varsHist>>
       ELSE
        /\ requests' = Append(requests,
                            _get_image_data_url(inst[cur].account_id, is_tagged, page))
        /\ failure' = IF failure = "none" THEN FailureKind(outcome) ELSE failure
        /\ \/ /\ outcome \in {"transport", "malformed"}
              \* _fetch_html_data raises, or there is no <pre>, or json.loads
              \* raises
              /\ pc' = "raised"
              /\ UNCHANGED <<inst, images_to_download, is_tagged, page,
                             snapshots, varsPool, save_failed>>
           \/ /\ outcome = "status_object"
              \* the object is saved; iterating it yields its keys and
              \* _format_filename raises on a key
              /\ pc' = "raised"
              /\ snapshots' = IF saved
                              THEN snapshots \cup {<<is_tagged, page>>}
                              ELSE snapshots
              /\ save_failed' = ~saved
              /\ UNCHANGED <<inst, images_to_download, is_tagged, page, varsPool>>
           \/ /\ outcome \in {"ok", "status_empty"}
              /\ ~saved
              \* open() or json.dump raises in _save_image_data
              /\ pc' = "raised"
              /\ save_failed' = TRUE
              /\ UNCHANGED <<inst, images_to_download, is_tagged, page,
                             snapshots, varsPool>>
           \/ /\ outcome \in {"ok", "status_empty"}
              /\ saved
              /\ snapshots' = snapshots \cup {<<is_tagged, page>>}
              /\ save_failed' = save_failed
              /\ LET me == inst[cur]
                     images_json ==
                         IF outcome = "ok"
                         THEN ServerPage(IF is_tagged THEN "tagged" ELSE "photos",
                                         PAGE_MAX_COUNT, page * PAGE_MAX_COUNT)
                         ELSE <<>>
                     images_with_count ==
                         _convert_images_json_to_tuples(me.account_id, images_json,
                                                   is_tagged)
                     counted ==
                         IF is_tagged
                         THEN [me EXCEPT !.tagged_count =
                                             @ + images_with_count.count]
                         ELSE [me EXCEPT !.photos_count =
                                             @ + images_with_count.count]
                     list == images_to_download \o images_with_count.images
                     totalled ==
                         [counted EXCEPT !.total_count =
                              counted.photos_count + counted.tagged_count]
                 IN  /\ images_to_download' = list
                     /\ IF images_with_count.count >= PAGE_MAX_COUNT
                        THEN /\ page' = page + 1
                             /\ inst' = [inst EXCEPT ![cur] = counted]
                             /\ pc' = "gather"
                             /\ UNCHANGED <<is_tagged, varsPool>>
                        ELSE IF is_tagged
                        THEN /\ is_tagged' = FALSE
                             /\ page' = 0
                             /\ inst' = [inst EXCEPT ![cur] = counted]
                             /\ pc' = "gather"
                             /\ UNCHANGED varsPool
                        ELSE /\ inst' = [inst EXCEPT ![cur] = totalled]
                             /\ UNCHANGED <<is_tagged, page>>
                             /\ IF ask
                                THEN /\ pc' = "prompt"
                                     /\ UNCHANGED varsPool
                                ELSE _download_all_begin(totalled.total_count, list)

\* _prompt_for_confirmation: one input of its loop; archive returns on "n"
\* and goes on to _download_all on "y"
_prompt_for_confirmation(input) ==
    /\ prog = "v2"
    /\ pc = "prompt"
    /\ answer' = Lower(input)
    /\ IF Lower(input) = "n"
       THEN /\ pc' = "returned"
            /\ UNCHANGED varsPool
       ELSE IF Lower(input) # "y"
       THEN /\ pc' = "prompt"
            /\ UNCHANGED varsPool
       ELSE _download_all_begin(inst[cur].total_count, images_to_download)
    /\ UNCHANGED <<prog, listing, runs, varsV1, varsV2, summary, varsHist>>

\* _download_image: a step of the coroutine of task t
_download_image(t) ==
    /\ prog = "v2"
    /\ TransferStep(t)

\* _download_all after its gather, and the rest of archive: the summary, close()
_download_all ==
    /\ prog = "v2"
    /\ pc = "pool"
    /\ GatherDone(tpc)
    /\ summary' = <<Sum(results), inst[cur].total_count>>
    /\ inst' = [inst EXCEPT ![cur].session = None, ![cur].html_session = None]
    /\ pc' = "returned"
    /\ UNCHANGED <<prog, listing, runs, varsV1, images_to_download, cur, ask,
                   is_tagged, page, snapshots, answer, varsPool, varsHist>>

NextV2 ==
    \/ \E i \in Instances : create(i)
    \/ \E i \in Instances, a \in BOOLEAN : archive(i, a)
    \/ \E outcome \in PageOutcomes, saved \in BOOLEAN :
          _download_image_data(outcome, saved)
    \/ \E input \in Answers : _prompt_for_confirmation(input)
    \/ \E t \in DOMAIN tpc : _download_image(t)
    \/ _download_all

Next == NextV1 \/ NextV2

Spec == Init /\ [][Next]_vars

(***************************************************************************)
(* Properties                                                              *)
(***************************************************************************)

\* the list the pool was given
Batch == IF prog = "v1" THEN image_urls ELSE images_to_download

\* the pool of the current run has been entered
PoolStarted == pc = "pool" \/ tasks # <<>> \/ summary # <<>>

\* the pool of the current run has returned and the summary is printed
PoolReturned == summary # <<>>

\* the run asks the user: always in download.py, on request in v2
ConfirmationRequested == prog = "v1" \/ ask

\* the gather step of the current run has returned normally
GatherReturned == pc \in {"prompt", "pool", "returned"}

Succeeded == {t \in DOMAIN fate : fate[t] = "ok"}

Failed == {t \in DOMAIN fate : fate[t] \in {"error", "status"}}

\* the requests of the current run that went to one category, in order
RequestsOf(cat) == SelectSeq(requests, LAMBDA r : r.category = cat)

CeilDiv(a, b) == (a + b - 1) \div b

\* C1: at any moment of any pool run the transfers in flight (holding a slot
\* of the semaphore) number at most the concurrency ceiling.
C1_InFlightWithinCeiling == Cardinality(InFlight) <= CONCURRENCY

\* C1 witness: the pool is saturated and a further task is waiting for a slot
C1_Witness ==
    /\ pc = "pool"
    /\ Cardinality(InFlight) = CONCURRENCY
    /\ \E t \in DOMAIN tpc : tpc[t] = "wait"

\* C2: once the pool has returned, every task of the batch has produced
\* exactly one result, True or False, and there are as many results as tasks.
C2_PoolJoin ==
    PoolReturned =>
        /\ Len(results) = Len(Batch)
        /\ \A t \in 1..Len(Batch) :
              /\ produced[t] = 1
              /\ results[t] \in {"True", "False"}

\* C2 witness: a pool of three or more tasks has returned with successes and
\* failures
C2_Witness ==
    /\ PoolReturned
    /\ Len(Batch) >= 3
    /\ Succeeded # {}
    /\ Failed # {}

\* C3: a failed transfer becomes the result False of its own task, the pool
\* is never aborted by it, and when exactly one task of a batch of N fails
\* the summary reads N-1 out of N.
C3_FailureIsolated ==
    /\ \A t \in Failed : results[t] = "False"
    /\ tasks # <<>> => pc \in {"pool", "returned"}
    /\ (PoolReturned /\ Cardinality(Failed) = 1) =>
          summary = <<Len(tasks) - 1, Len(tasks)>>

\* C4: against an honest listing the paginator yields one task per record,
\* in order, none missing and none twice, with floor(N / page size) + 1
\* requests (checked on the first run of the process, whose list starts
\* empty).
C4_EveryRecordOnce ==
    (failure = "none" /\ runs = 1 /\ GatherReturned) =>
        IF prog = "v1"
        THEN /\ image_urls = [k \in 1..listing["photos"]
                                 |-> create_image_tuple(ImageRecord("photos", k))]
             /\ Len(requests) = (listing["photos"] \div PAGE_MAX_COUNT) + 1
        ELSE /\ images_to_download =
                   [k \in 1..listing["tagged"] |->
                       ImageOf(inst[cur].account_id, ImageRecord("tagged", k), TRUE)]
                   \o [k \in 1..listing["photos"] |->
                       ImageOf(inst[cur].account_id, ImageRecord("photos", k), FALSE)]
             /\ \A cat \in Categories :
                   Len(RequestsOf(cat)) = (listing[cat] \div PAGE_MAX_COUNT) + 1

\* C5: the k-th request of a pagination run (k = 0, 1, ...) carries
\* skip = k * page size.
C5_OffsetsInOrder ==
    \A cat \in Categories :
        \A k \in 1..Len(RequestsOf(cat)) :
            RequestsOf(cat)[k].skip = (k - 1) * PAGE_MAX_COUNT

\* C6: a pagination run over N records issues at most ceil(N / page size) + 1
\* requests, none with a negative offset or an offset beyond N, and an honest
\* run ends with the first page shorter than the page size.
C6_PaginationBounded ==
    \A cat \in Categories :
        /\ Len(RequestsOf(cat)) <= CeilDiv(listing[cat], PAGE_MAX_COUNT) + 1
        /\ \A k \in 1..Len(RequestsOf(cat)) :
              /\ RequestsOf(cat)[k].skip >= 0
              /\ RequestsOf(cat)[k].skip <= listing[cat]
        /\ (failure = "none" /\ GatherReturned) =>
              Len(RequestsOf(cat)) \in {0, (listing[cat] \div PAGE_MAX_COUNT) + 1}

\* C7: once a page fetch has failed (transport error, error status, malformed
\* body) the run has raised: the gather neither goes on nor returns normally.
C7_FailedPageAborts == failure # "none" => pc = "raised"

\* C8: in a run in which a listing page failed no download coroutine is
\* ever started: no task of a partial list reaches the pool.
C8_NoTransferAfterFailedPage == failure # "none" => tasks = <<>>

\* C9: in the summary "Downloaded X / Y", X is the number of transfers that
\* succeeded and Y the number of tasks the pool ran: succeeded + failed = Y
\* and X <= Y.
C9_SummaryCounts ==
    PoolReturned =>
        /\ summary[1] = Cardinality(Succeeded)
        /\ summary[2] = Len(tasks)
        /\ Cardinality(Succeeded) + Cardinality(Failed) = summary[2]
        /\ summary[1] <= summary[2]

\* C10: when confirmation is requested the pool is entered only on the answer
\* "y"; "n" ends the run with no transfer, and in v2 any other answer leaves
\* the run at the prompt.
C10_ConfirmedBeforePool ==
    ConfirmationRequested =>
        /\ PoolStarted => Lower(answer) = "y"
        /\ Lower(answer) = "n" => (pc = "returned" /\ ~PoolStarted)
        /\ (prog = "v2" /\ answer \notin {"", "y", "n"}) =>
              (pc = "prompt" /\ ~PoolStarted)

\* C10 witness: the pool runs after an affirmative answer
C10_Witness ==
    /\ ConfirmationRequested
    /\ pc = "pool"
    /\ tasks # <<>>
    /\ Lower(answer) = "y"

\* the network sessions the current run works with
SessionsOfRun ==
    IF prog = "v1" THEN {session}
    ELSE {inst[cur].session, inst[cur].html_session}

\* C11: when main (download.py) or archive (v2) has returned, on completion
\* and on a declined confirmation alike, no network session of the run is
\* still open.
C11_SessionsClosedAtReturn ==
    (runs > 0 /\ pc = "returned") => "open" \notin SessionsOfRun

\* the transfers whose response carried a failure status
StatusFailed == {t \in DOMAIN fate : fate[t] = "status"}

\* C12: a transfer whose response carries a failure status fails at once,
\* with the result False, and never opens (creates, truncates) or writes its
\* destination; a destination is opened only by a transfer that has passed
\* the status check.
C12_NoFileOnFailedStatus ==
    /\ \A t \in StatusFailed :
          /\ ~opened[t]
          /\ tpc[t] = "done"
          /\ results[t] = "False"
    /\ \A t \in DOMAIN opened : opened[t] => tpc[t] \in {"write", "done"}

\* C12 witness: of two transfers in one pool, one failed its status check
\* and the other has opened its destination
C12_Witness ==
    /\ pc = "pool"
    /\ \E t \in StatusFailed : ~opened[t]
    /\ \E u \in DOMAIN opened : opened[u]

\* the semaphore of the current run exists: download_all has created it, or
\* the instance has been created
SemaphoreExists ==
    IF prog = "v1" THEN PoolStarted ELSE inst[cur].created

\* C13: a slot is taken before a transfer's request starts and given back
\* when the transfer ends, whatever its result: free slots plus transfers in
\* flight always equal the ceiling, and once the batch has completed every
\* slot is free.
C13_SlotsAccounted ==
    /\ SemaphoreExists =>
          /\ SemValue >= 0
          /\ SemValue + Cardinality(InFlight) = CONCURRENCY
    /\ (pc = "pool" /\ GatherDone(tpc)) => SemValue = CONCURRENCY
    /\ PoolReturned => SemValue = CONCURRENCY

\* C13 witness: a pool of more tasks than slots has returned, with successes,
\* a failed status check and another failure among its transfers
C13_Witness ==
    /\ PoolReturned
    /\ Len(tasks) > CONCURRENCY
    /\ Succeeded # {}
    /\ StatusFailed # {}
    /\ Failed \ StatusFailed # {}
    /\ SemValue = CONCURRENCY

\* C14: every transfer attempt runs under the configured total timeout: the
\* timeout in force on the session that download_image / _download_image use
\* is the TIMEOUT constant.
C14_ConfiguredTimeoutInForce ==
    (pc = "pool" /\ tasks # <<>>) => TimeoutOfRun = TIMEOUT

\* the task the program builds from the k-th record of a category, computed
\* afresh in the current state
Rebuilt(cat, k) ==
    IF prog = "v1" THEN create_image_tuple(ImageRecord(cat, k))
    ELSE ImageOf(ACCOUNT_ID_V2, ImageRecord(cat, k), cat = "tagged")

\* the category directory of a v2 destination path
CategoryOf(image) == image.filepath[3]

\* C15: task building is deterministic: every task in the list, whenever and
\* by whichever instance it was built, is the pair that building its record
\* yields now, and two list entries built from the same record and category
\* are the same pair.
C15_BuildDeterministic ==
    pc # "pool" =>
        /\ \A i \in 1..Len(Batch) :
              \E cat \in Categories : \E k \in 1..listing[cat] :
                  Batch[i] = Rebuilt(cat, k)
        /\ \A i, j \in 1..Len(Batch) :
              (Batch[i].url = Batch[j].url
                 /\ (prog = "v2" => CategoryOf(Batch[i]) = CategoryOf(Batch[j])))
              => Batch[i] = Batch[j]

\* C15 witness: the same record was built twice, by two archive() calls, and
\* the two entries are the same pair
C15_Witness ==
    /\ prog = "v2"
    /\ runs = 2
    /\ pc = "prompt"
    /\ \E i, j \in 1..Len(images_to_download) :
          i < j /\ images_to_download[i] = images_to_download[j]

\* C16: the batch handed to the pool holds no two tasks with the same
\* destination path, after any sequence of create / archive calls in the
\* process.
C16_DestinationsUnique ==
    \A i, j \in 1..Len(tasks) :
        i # j => tasks[i].filepath # tasks[j].filepath

\* the ImageName of a task: its url less the host prefix
NameOf(image) == Tail(image.url)

\* s ends with e
EndsWith(s, e) ==
    Len(s) >= Len(e) /\ SubSeq(s, Len(s) - Len(e) + 1, Len(s)) = e

\* C17: in v2 the destination filename ends with the ImageName followed by
\* ".png" when the ImageName contains no '.', and with the ImageName
\* unchanged when it contains one, whatever the other fields of the record.
C17_PngIffNameHasNoExtension ==
    prog = "v2" =>
        \A i \in 1..Len(images_to_download) :
            LET image == images_to_download[i]
            IN  IF Contains(NameOf(image), ".")
                THEN EndsWith(image.filepath, NameOf(image))
                ELSE EndsWith(image.filepath,
                              NameOf(image) \o <<".", "p", "n", "g">>)

\* C18: writing the raw page to its snapshot file has no influence on the
\* pagination: a run whose page fetches all succeeded is not ended by a
\* snapshot write that failed, it goes on to the same requests, tasks and
\* counts.
C18_SnapshotHasNoInfluence ==
    (prog = "v2" /\ failure = "none" /\ save_failed) => pc # "raised"

\* the listing holds no record in any category
EmptyAccount == \A cat \in Categories : listing[cat] = 0

\* C19: on an account without records a run whose page fetches and snapshot
\* writes succeeded raises nothing; once confirmed, the pool runs on the
\* empty batch, the summary reads 0 / 0 and the sessions are closed.
C19_EmptyAccountCompletes ==
    (EmptyAccount /\ runs = 1 /\ failure = "none" /\ ~save_failed) =>
        /\ pc # "raised"
        /\ PoolReturned =>
              /\ results = <<>>
              /\ summary = <<0, 0>>
              /\ "open" \notin SessionsOfRun

\* how many entries of the class-level list lie in a category's directory
CountIn(cat) ==
    Cardinality({i \in 1..Len(images_to_download) :
                    CategoryOf(images_to_download[i]) = cat})

\* C20: in v2, while the pool that _download_all started runs, the counters
\* of the running instance agree with the list: total_count is the sum of
\* photos_count and tagged_count and the length of images_to_download, and
\* tagged_count and photos_count are the numbers of tagged and of owned
\* tasks in it.
C20_CountersMatchList ==
    (prog = "v2" /\ pc = "pool") =>
        /\ inst[cur].total_count = inst[cur].photos_count + inst[cur].tagged_count
        /\ inst[cur].total_count = Len(images_to_download)
        /\ inst[cur].tagged_count = CountIn("tagged")
        /\ inst[cur].photos_count = CountIn("photos")

=============================================================================
